---- MODULE Spec2Model ----
(***************************************************************************)
(* The Forth interpreter of src/forth/src/lib.rs as a state machine.       *)
(*                                                                         *)
(* Text is modelled as a sequence of one-character strings, so that        *)
(* to_ascii_lowercase, str::parse::<i32> and format!("_{k}") are computed  *)
(* character by character.  Values are i32: arithmetic keeps its width.    *)
(* One eval call is the run  EvalCall, one step per unit that              *)
(* iter.next() yields (EvalUnit in eval's loop, DefName and DefUnit in     *)
(* create_definition), and EvalEnd when iter.next() yields None.           *)
(***************************************************************************)
EXTENDS Integers, Sequences, FiniteSets, TLC

(***************************************************************************)
(* Bounds of the model.                                                    *)
(***************************************************************************)
\* longest stack kept between two units
MaxStack == 3
\* values kept on the stack lie within MaxAbs of 0, or are i32::MAX or i32::MIN
MaxAbs == 2
\* most names bound in word_ids at once
MaxWords == 3
\* most tokens collected for one definition body
MaxBody == 1
\* nesting of execute_custom_token calls the native call stack can hold
MaxDepth == 6

(***************************************************************************)
(* pub type Value = i32                                                    *)
(***************************************************************************)
MAXI32 == 2147483647
MINI32 == (-MAXI32) - 1

Value == {v \in Int : v >= MINI32 /\ v <= MAXI32}

Error == {"DivisionByZero", "StackUnderflow", "UnknownWord", "InvalidWord"}

(***************************************************************************)
(* i32 arithmetic.  The sums and products are never formed outside the     *)
(* i32 range: whether a result fits is decided first, and the wrapped      *)
(* (two's complement) result is computed from in-range pieces.             *)
(***************************************************************************)
AddFits(b, a) ==
    IF a >= 0 THEN b <= MAXI32 - a ELSE b >= MINI32 - a

SubFits(b, a) ==
    IF a >= 0 THEN b >= MINI32 + a ELSE b <= MAXI32 + a

WrapAdd(b, a) ==
    IF AddFits(b, a) THEN b + a
    ELSE IF a >= 0 THEN (b + MINI32) + (a + MINI32)
                   ELSE (b - MINI32) + (a - MINI32)

WrapSub(b, a) ==
    IF SubFits(b, a) THEN b - a
    ELSE IF a >= 0 THEN (b - MINI32) - (a + MINI32)
                   ELSE (b + MINI32) - (a - MINI32)

Abs(n) == IF n < 0 THEN -n ELSE n

MulFits(b, a) ==
    IF a = 0 \/ b = 0 THEN TRUE
    ELSE IF a = MINI32 THEN b = 1
    ELSE IF b = MINI32 THEN a = 1
    ELSE IF (a > 0) = (b > 0) THEN Abs(b) <= MAXI32 \div Abs(a)
    ELSE \/ Abs(b) <= MAXI32 \div Abs(a)
         \/ (Abs(a) > 1 /\ Abs(b) = (MAXI32 \div Abs(a)) + 1
                /\ MAXI32 % Abs(a) = Abs(a) - 1)

RECURSIVE WrapMulNat(_, _)
\* b * n modulo 2^32 for n >= 0, by doubling
WrapMulNat(b, n) ==
    IF n = 0 THEN 0
    ELSE LET half == WrapMulNat(WrapAdd(b, b), n \div 2)
         IN  IF n % 2 = 1 THEN WrapAdd(half, b) ELSE half

WrapMul(b, a) ==
    IF a >= 0 THEN WrapMulNat(b, a)
    ELSE WrapAdd(WrapMulNat(b, a - MINI32), IF b % 2 = 1 THEN MINI32 ELSE 0)

\* i32 division truncates toward zero; a # 0 and not (b = MINI32 /\ a = -1)
TruncDiv(b, a) ==
    LET q == b \div a
        exact == IF a = MINI32 THEN b \in {0, MINI32} ELSE b % Abs(a) = 0
    IN  IF ~exact /\ ((b < 0) # (a < 0)) THEN q + 1 ELSE q

DivFits(b, a) == ~(b = MINI32 /\ a = -1)

(***************************************************************************)
(* Text.                                                                   *)
(***************************************************************************)
UpperChars == <<"A", "B", "C", "D", "E", "F", "G", "H", "I", "J", "K", "L", "M",
                "N", "O", "P", "Q", "R", "S", "T", "U", "V", "W", "X", "Y", "Z">>
LowerChars == <<"a", "b", "c", "d", "e", "f", "g", "h", "i", "j", "k", "l", "m",
                "n", "o", "p", "q", "r", "s", "t", "u", "v", "w", "x", "y", "z">>

LowerChar(c) ==
    IF \E i \in DOMAIN UpperChars : UpperChars[i] = c
    THEN LowerChars[CHOOSE i \in DOMAIN UpperChars : UpperChars[i] = c]
    ELSE c

\* str::to_ascii_lowercase, on one unit of the input
\* to_ascii_lowercase that keeps the text as it is spelled
ToAsciiLowercaseKeeps(s) == s

ToAsciiLowercase(s) == [i \in DOMAIN s |-> LowerChar(s[i])]

Digits == <<"0", "1", "2", "3", "4", "5", "6", "7", "8", "9">>

IsDigit(c) == \E i \in DOMAIN Digits : Digits[i] = c

DigitVal(c) == (CHOOSE i \in DOMAIN Digits : Digits[i] = c) - 1

RECURSIVE ParseDigits(_, _, _)
\* the digits ds accumulated onto acc, away from zero in the direction of the
\* sign; [ok |-> FALSE] on a non-digit or when the value leaves the i32 range
ParseDigits(ds, acc, neg) ==
    IF ds = <<>> THEN [ok |-> TRUE, v |-> acc]
    ELSE IF ~IsDigit(Head(ds)) THEN [ok |-> FALSE, v |-> 0]
    ELSE LET d == DigitVal(Head(ds))
         IN  IF neg
             THEN IF \/ acc < -(MAXI32 \div 10)
                     \/ (acc = -(MAXI32 \div 10) /\ d > (MAXI32 % 10) + 1)
                  THEN [ok |-> FALSE, v |-> 0]
                  ELSE ParseDigits(Tail(ds), (acc * 10) - d, neg)
             ELSE IF \/ acc > MAXI32 \div 10
                     \/ (acc = MAXI32 \div 10 /\ d > MAXI32 % 10)
                  THEN [ok |-> FALSE, v |-> 0]
                  ELSE ParseDigits(Tail(ds), (acc * 10) + d, neg)

\* s.parse::<i32>(): an optional sign, then at least one digit, within i32
ParseI32(s) ==
    IF s = <<>> THEN [ok |-> FALSE, v |-> 0]
    ELSE IF Head(s) \in {"+", "-"}
         THEN IF Tail(s) = <<>> THEN [ok |-> FALSE, v |-> 0]
              ELSE ParseDigits(Tail(s), 0, Head(s) = "-")
         ELSE ParseDigits(s, 0, FALSE)

(***************************************************************************)
(* enum Token and Token::tokenize.                                         *)
(***************************************************************************)
Tok(tag) == [tag |-> tag, arg |-> 0]
IntTok(n) == [tag |-> "Int", arg |-> n]
CustomTok(id) == [tag |-> "Custom", arg |-> id]

NoToken == Tok("None")

Tokenize(s) ==
    CASE s = <<":">> -> Tok("Colon")
      [] s = <<";">> -> Tok("SemiColon")
      [] s = <<"+">> -> Tok("Add")
      [] s = <<"-">> -> Tok("Sub")
      [] s = <<"*">> -> Tok("Mul")
      [] s = <<"/">> -> Tok("Div")
      [] s = <<"d", "u", "p">> -> Tok("Dup")
      [] s = <<"d", "r", "o", "p">> -> Tok("Drop")
      [] s = <<"s", "w", "a", "p">> -> Tok("Swap")
      [] s = <<"o", "v", "e", "r">> -> Tok("Over")
      [] OTHER -> LET p == ParseI32(s)
                  IN  IF p.ok THEN IntTok(p.v) ELSE NoToken

(***************************************************************************)
(* struct CustomWords: word_ids maps a name to an id, custom_words an id   *)
(* to its body.  Both are functions with a finite domain.                  *)
(***************************************************************************)
EmptyMap == [x \in {} |-> 0]

MapInsert(m, k, v) == [x \in (DOMAIN m) \cup {k} |-> IF x = k THEN v ELSE m[x]]

MapRemove(m, k) == [x \in (DOMAIN m) \ {k} |-> m[x]]

IsKnownWord(wi, k) == k \in DOMAIN wi

GetById(cw, id) ==
    IF id \in DOMAIN cw THEN [some |-> TRUE, v |-> cw[id]]
    ELSE [some |-> FALSE, v |-> <<>>]

GetTokens(wi, cw, k) ==
    IF k \in DOMAIN wi THEN GetById(cw, wi[k])
    ELSE [some |-> FALSE, v |-> <<>>]

GetCustomToken(wi, k) ==
    IF k \in DOMAIN wi THEN CustomTok(wi[k]) ELSE NoToken

\* format!("_{k}")
ShadowName(k) == <<"_">> \o k

\* RenameWord that moves the old binding to an id of its own
RenameWordFreshId(wi, k) ==
    IF k \in DOMAIN wi
    THEN [res |-> "Ok",
          word_ids |-> MapInsert(MapRemove(wi, k), ShadowName(k),
                                 Cardinality(DOMAIN wi) + 1)]
    ELSE [res |-> "UnknownWord", word_ids |-> wi]

RenameWord(wi, k) ==
    IF k \in DOMAIN wi
    THEN [res |-> "Ok", word_ids |-> MapInsert(MapRemove(wi, k), ShadowName(k), wi[k])]
    ELSE [res |-> "UnknownWord", word_ids |-> wi]

\* the id insert_word gives the new binding
NewId(wi) == Cardinality(DOMAIN wi) + 1

\* InsertWord that, after the rename, rejects a definition with no body
InsertWordRejectsEmpty(wi, cw, k, tokens) ==
    LET rn  == IF IsKnownWord(wi, k) THEN RenameWord(wi, k)
               ELSE [res |-> "Ok", word_ids |-> wi]
        wi1 == rn.word_ids
        id  == NewId(wi1)
    IN  IF rn.res # "Ok"
        THEN [res |-> rn.res, word_ids |-> wi1, custom_words |-> cw]
        ELSE IF ParseI32(k).ok \/ tokens = <<>>
        THEN [res |-> "InvalidWord", word_ids |-> wi1, custom_words |-> cw]
        ELSE [res |-> "Ok",
              word_ids |-> MapInsert(wi1, k, id),
              custom_words |-> MapInsert(cw, id, tokens)]

\* InsertWord without the check of the name against an integer
InsertWordAnyName(wi, cw, k, tokens) ==
    LET rn  == IF IsKnownWord(wi, k) THEN RenameWord(wi, k)
               ELSE [res |-> "Ok", word_ids |-> wi]
        wi1 == rn.word_ids
        id  == NewId(wi1)
    IN  IF rn.res # "Ok"
        THEN [res |-> rn.res, word_ids |-> wi1, custom_words |-> cw]
        ELSE [res |-> "Ok",
              word_ids |-> MapInsert(wi1, k, id),
              custom_words |-> MapInsert(cw, id, tokens)]

InsertWord(wi, cw, k, tokens) ==
    LET rn  == IF IsKnownWord(wi, k) THEN RenameWord(wi, k)
               ELSE [res |-> "Ok", word_ids |-> wi]
        wi1 == rn.word_ids
        id  == NewId(wi1)
    IN  IF rn.res # "Ok"
        THEN [res |-> rn.res, word_ids |-> wi1, custom_words |-> cw]
        ELSE IF ParseI32(k).ok
        THEN [res |-> "InvalidWord", word_ids |-> wi1, custom_words |-> cw]
        ELSE [res |-> "Ok",
              word_ids |-> MapInsert(wi1, k, id),
              custom_words |-> MapInsert(cw, id, tokens)]

(***************************************************************************)
(* The execute_* functions.  Each returns the stack it leaves and its      *)
(* Result; "abort" is a panic or a native stack overflow, which ends the   *)
(* process.  chk is the build's overflow-checks setting: with it an        *)
(* overflowing +, - or * panics, without it the result wraps.              *)
(***************************************************************************)
Front(s) == SubSeq(s, 1, Len(s) - 1)

Last(s) == s[Len(s)]

Out(stk, res) == [stack |-> stk, res |-> res]

ExecuteAdd(stk, chk) ==
    IF Len(stk) = 0 THEN Out(stk, "StackUnderflow")
    ELSE IF Len(stk) = 1 THEN Out(<<>>, "StackUnderflow")
    ELSE LET a == Last(stk)
             b == Last(Front(stk))
             rest == Front(Front(stk))
         IN  IF AddFits(a, b) THEN Out(Append(rest, a + b), "Ok")
             ELSE IF chk THEN Out(rest, "abort")
             ELSE Out(Append(rest, WrapAdd(a, b)), "Ok")

ExecuteSub(stk, chk) ==
    IF Len(stk) = 0 THEN Out(stk, "StackUnderflow")
    ELSE IF Len(stk) = 1 THEN Out(<<>>, "StackUnderflow")
    ELSE LET a == Last(stk)
             b == Last(Front(stk))
             rest == Front(Front(stk))
         IN  IF SubFits(b, a) THEN Out(Append(rest, b - a), "Ok")
             ELSE IF chk THEN Out(rest, "abort")
             ELSE Out(Append(rest, WrapSub(b, a)), "Ok")

ExecuteMul(stk, chk) ==
    IF Len(stk) = 0 THEN Out(stk, "StackUnderflow")
    ELSE IF Len(stk) = 1 THEN Out(<<>>, "StackUnderflow")
    ELSE LET a == Last(stk)
             b == Last(Front(stk))
             rest == Front(Front(stk))
         IN  IF MulFits(b, a) THEN Out(Append(rest, b * a), "Ok")
             ELSE IF chk THEN Out(rest, "abort")
             ELSE Out(Append(rest, WrapMul(b, a)), "Ok")

\* i32::MIN / -1 panics in every build
\* ExecuteDiv that looks at the divisor before it pops
ExecuteDivChecksFirst(stk) ==
    IF Len(stk) = 0 THEN Out(stk, "StackUnderflow")
    ELSE IF Len(stk) = 1 THEN Out(<<>>, "StackUnderflow")
    ELSE LET a == Last(stk)
             b == Last(Front(stk))
             rest == Front(Front(stk))
         IN  IF a = 0 THEN Out(stk, "DivisionByZero")
             ELSE IF ~DivFits(b, a) THEN Out(rest, "abort")
             ELSE Out(Append(rest, TruncDiv(b, a)), "Ok")

ExecuteDiv(stk) ==
    IF Len(stk) = 0 THEN Out(stk, "StackUnderflow")
    ELSE IF Len(stk) = 1 THEN Out(<<>>, "StackUnderflow")
    ELSE LET a == Last(stk)
             b == Last(Front(stk))
             rest == Front(Front(stk))
         IN  IF a = 0 THEN Out(rest, "DivisionByZero")
             ELSE IF ~DivFits(b, a) THEN Out(rest, "abort")
             ELSE Out(Append(rest, TruncDiv(b, a)), "Ok")

ExecuteDup(stk) ==
    IF Len(stk) = 0 THEN Out(stk, "StackUnderflow")
    ELSE LET a == Last(stk)
         IN  Out(Append(Append(Front(stk), a), a), "Ok")

ExecuteDrop(stk) ==
    IF Len(stk) = 0 THEN Out(stk, "StackUnderflow")
    ELSE Out(Front(stk), "Ok")

\* ExecuteSwap that counts the operands before it pops
ExecuteSwapPeeks(stk) ==
    IF Len(stk) < 2 THEN Out(stk, "StackUnderflow")
    ELSE LET a == Last(stk)
             b == Last(Front(stk))
             rest == Front(Front(stk))
         IN  Out(Append(Append(rest, a), b), "Ok")

ExecuteSwap(stk) ==
    IF Len(stk) = 0 THEN Out(stk, "StackUnderflow")
    ELSE IF Len(stk) = 1 THEN Out(<<>>, "StackUnderflow")
    ELSE LET a == Last(stk)
             b == Last(Front(stk))
             rest == Front(Front(stk))
         IN  Out(Append(Append(rest, a), b), "Ok")

\* ExecuteOver that copies the top value
ExecuteOverCopiesTop(stk) ==
    IF Len(stk) = 0 THEN Out(stk, "StackUnderflow")
    ELSE IF Len(stk) = 1 THEN Out(<<>>, "StackUnderflow")
    ELSE LET a == Last(stk)
             b == Last(Front(stk))
             rest == Front(Front(stk))
         IN  Out(Append(Append(Append(rest, b), a), a), "Ok")

ExecuteOver(stk) ==
    IF Len(stk) = 0 THEN Out(stk, "StackUnderflow")
    ELSE IF Len(stk) = 1 THEN Out(<<>>, "StackUnderflow")
    ELSE LET a == Last(stk)
             b == Last(Front(stk))
             rest == Front(Front(stk))
         IN  Out(Append(Append(Append(rest, b), a), b), "Ok")

ExecuteInt(stk, n) == Out(Append(stk, n), "Ok")

RECURSIVE ExecuteToken(_, _, _, _, _)
RECURSIVE ExecuteTokens(_, _, _, _, _)

\* the loop `for token in tokens { execute_token(token, ..)?; }`
ExecuteTokens(toks, cw, stk, chk, depth) ==
    IF toks = <<>> THEN Out(stk, "Ok")
    ELSE LET r == ExecuteToken(Head(toks), cw, stk, chk, depth)
         IN  IF r.res # "Ok" THEN r
             ELSE ExecuteTokens(Tail(toks), cw, r.stack, chk, depth)

\* depth counts the execute_custom_token frames below this call; the call
\* that would need more than MaxDepth of them overflows the native stack
ExecuteCustomToken(id, cw, stk, chk, depth) ==
    LET t == GetById(cw, id)
    IN  IF ~t.some THEN Out(stk, "UnknownWord")
        ELSE IF depth >= MaxDepth THEN Out(stk, "abort")
        ELSE ExecuteTokens(t.v, cw, stk, chk, depth + 1)

ExecuteToken(token, cw, stk, chk, depth) ==
    CASE token.tag = "Add"  -> ExecuteAdd(stk, chk)
      [] token.tag = "Sub"  -> ExecuteSub(stk, chk)
      [] token.tag = "Mul"  -> ExecuteMul(stk, chk)
      [] token.tag = "Div"  -> ExecuteDiv(stk)
      [] token.tag = "Dup"  -> ExecuteDup(stk)
      [] token.tag = "Drop" -> ExecuteDrop(stk)
      [] token.tag = "Swap" -> ExecuteSwap(stk)
      [] token.tag = "Over" -> ExecuteOver(stk)
      [] token.tag = "Int"  -> ExecuteInt(stk, token.arg)
      [] token.tag = "Custom" -> ExecuteCustomToken(token.arg, cw, stk, chk, depth)
      [] OTHER -> Out(stk, "UnknownWord")

ExecuteCustomWord(k, wi, cw, stk, chk) ==
    LET t == GetTokens(wi, cw, k)
    IN  IF ~t.some THEN Out(stk, "UnknownWord")
        ELSE ExecuteTokens(t.v, cw, stk, chk, 0)

(***************************************************************************)
(* Units of input text.                                                    *)
(***************************************************************************)
MaxLit == <<"2", "1", "4", "7", "4", "8", "3", "6", "4", "7">>
MinLit == <<"-", "2", "1", "4", "7", "4", "8", "3", "6", "4", "8">>

\* programs of literals and built-in words
ArithUnits ==
    {<<"0">>, <<"1">>, <<"2">>, <<"-", "1">>, MaxLit, MinLit,
     <<"+">>, <<"-">>, <<"*">>, <<"/">>,
     <<"d", "u", "p">>, <<"d", "r", "o", "p">>, <<"s", "w", "a", "p">>,
     <<"o", "v", "e", "r">>, <<";">>, <<"x">>}

\* programs that define, redefine and use two words
DictUnits ==
    {<<":">>, <<";">>, <<"f">>, <<"b">>}

\* programs that also spell the name rename_word gives a redefined f
ShadowUnits ==
    {<<":">>, <<";">>, <<"f">>, <<"_", "f">>}

\* programs that use literals, delimiters and unknown text as names
NameUnits ==
    {<<":">>, <<";">>, <<"1">>, <<"+", "1">>, <<"x">>}

Alphabets == {ArithUnits, DictUnits, ShadowUnits, NameUnits}

\* programs, spelled in upper case, that define and use a word and a
\* built-in word, also as a name
CaseUnits ==
    {<<":">>, <<";">>, <<"F">>, <<"D", "U", "P">>}

\* programs of literals and stack built-ins in mixed case
CaseStackUnits ==
    {<<"1">>, <<"2">>, <<"D", "U", "P">>, <<"D", "r", "o", "p">>,
     <<"s", "W", "A", "P">>, <<"O", "v", "e", "R">>}

CaseAlphabets == {CaseUnits, CaseStackUnits}

\* the programs and the build of one run: only programs with arithmetic
\* behave differently under the two settings of overflow-checks
Runs ==
    {[alphabet |-> a, overflow_checks |-> c] :
        a \in Alphabets \cap {ArithUnits}, c \in BOOLEAN}
    \cup {[alphabet |-> a, overflow_checks |-> TRUE] : a \in Alphabets \ {ArithUnits}}

(***************************************************************************)
(* State.                                                                  *)
(***************************************************************************)
VARIABLES
    stack,            \* Forth.stack
    word_ids,         \* Forth.custom_words.word_ids
    custom_words,     \* Forth.custom_words.custom_words
    pc,               \* where the running eval call stands
    word,             \* create_definition's `word`
    tokens,           \* create_definition's `tokens`
    result,           \* what the last eval call returned, "none" during a call
    overflow_checks,  \* the build's overflow-checks setting
    alphabet,         \* the units the programs fed to this instance are made of
    shadow            \* history: the names bound by rename_word

vars == <<stack, word_ids, custom_words, pc, word, tokens, result,
          overflow_checks, alphabet, shadow>>

\* Forth::new() under either build
Init ==
    /\ stack = <<>>
    /\ word_ids = EmptyMap
    /\ custom_words = EmptyMap
    /\ pc = "idle"
    /\ word = <<>>
    /\ tokens = <<>>
    /\ result = "none"
    /\ \E r \in Runs : alphabet = r.alphabet /\ overflow_checks = r.overflow_checks
    /\ shadow = {}

(***************************************************************************)
(* One step of eval as a function of the state: the record of what the     *)
(* step leaves.                                                            *)
(***************************************************************************)
Here ==
    [stack |-> stack, word_ids |-> word_ids, custom_words |-> custom_words,
     pc |-> pc, word |-> word, tokens |-> tokens, result |-> result,
     shadow |-> shadow]

\* Return that records the error and lets the loop go on
ReturnGoesOn(st, res) ==
    [st EXCEPT !.pc = IF res = "abort" THEN "aborted"
                      ELSE IF res = "Ok" THEN "idle" ELSE st.pc,
               !.result = res]

\* eval returns res through `?` or at its end: create_definition's locals go
Return(st, res) ==
    [st EXCEPT !.pc = IF res = "abort" THEN "aborted" ELSE "idle",
               !.word = <<>>, !.tokens = <<>>, !.result = res]

\* EvalCallFn that starts every call on an empty stack
EvalCallFresh(st) == [st EXCEPT !.pc = "normal", !.result = "none", !.stack = <<>>]

\* eval is entered: the input is lowercased and split, nothing else changes
EvalCallFn(st) == [st EXCEPT !.pc = "normal", !.result = "none"]

\* EvalUnitFn that skips a unit it cannot tokenize
EvalUnitFnSkipsUnknown(st, t, chk) ==
    IF IsKnownWord(st.word_ids, t)
    THEN LET r == ExecuteCustomWord(t, st.word_ids, st.custom_words, st.stack, chk)
         IN  IF r.res = "Ok" THEN [st EXCEPT !.stack = r.stack]
             ELSE Return([st EXCEPT !.stack = r.stack], r.res)
    ELSE LET token == Tokenize(t)
         IN  IF token = NoToken THEN st
             ELSE IF token.tag = "Colon" THEN [st EXCEPT !.pc = "defname"]
             ELSE LET r == ExecuteToken(token, st.custom_words, st.stack, chk, 0)
                  IN  IF r.res = "Ok" THEN [st EXCEPT !.stack = r.stack]
                      ELSE Return([st EXCEPT !.stack = r.stack], r.res)

\* one iteration of eval's loop on the unit t
EvalUnitFn(st, t, chk) ==
    IF IsKnownWord(st.word_ids, t)
    THEN LET r == ExecuteCustomWord(t, st.word_ids, st.custom_words, st.stack, chk)
         IN  IF r.res = "Ok" THEN [st EXCEPT !.stack = r.stack]
             ELSE Return([st EXCEPT !.stack = r.stack], r.res)
    ELSE LET token == Tokenize(t)
         IN  IF token = NoToken THEN Return(st, "UnknownWord")
             ELSE IF token.tag = "Colon" THEN [st EXCEPT !.pc = "defname"]
             ELSE LET r == ExecuteToken(token, st.custom_words, st.stack, chk, 0)
                  IN  IF r.res = "Ok" THEN [st EXCEPT !.stack = r.stack]
                      ELSE Return([st EXCEPT !.stack = r.stack], r.res)

\* create_definition takes the word's name
DefNameFn(st, t) == [st EXCEPT !.pc = "capture", !.word = t, !.tokens = <<>>]

\* create_definition after its loop, toks being what the loop collected:
\* the last token must be the semicolon, and the word is inserted
FinishDefinition(st, toks) ==
    IF toks = <<>> THEN Return(st, "InvalidWord")
    ELSE IF Last(toks).tag # "SemiColon" THEN Return(st, "InvalidWord")
    ELSE LET k   == st.word
             ins == InsertWord(st.word_ids, st.custom_words, k, Front(toks))
             sh  == IF IsKnownWord(st.word_ids, k)
                    THEN (st.shadow \ {k}) \cup {ShadowName(k)}
                    ELSE st.shadow
             st1 == [st EXCEPT !.word_ids = ins.word_ids,
                               !.custom_words = ins.custom_words,
                               !.shadow = sh]
         IN  IF ins.res = "Ok"
             THEN [st1 EXCEPT !.pc = "normal", !.word = <<>>, !.tokens = <<>>]
             ELSE Return(st1, ins.res)

\* DefUnitFn that executes each body token as it collects it
DefUnitFnExecutes(st, t) ==
    IF IsKnownWord(st.word_ids, t)
    THEN LET token == GetCustomToken(st.word_ids, t)
         IN  IF token = NoToken THEN Return(st, "InvalidWord")
             ELSE [st EXCEPT !.tokens = Append(st.tokens, token),
                             !.stack = ExecuteToken(token, st.custom_words,
                                                    st.stack, TRUE, 0).stack]
    ELSE LET token == Tokenize(t)
         IN  IF token = NoToken THEN Return(st, "InvalidWord")
             ELSE IF token.tag = "SemiColon"
                  THEN FinishDefinition(st, Append(st.tokens, token))
             ELSE IF token.tag = "Colon" THEN Return(st, "InvalidWord")
             ELSE [st EXCEPT !.tokens = Append(st.tokens, token),
                             !.stack = ExecuteToken(token, st.custom_words,
                                                    st.stack, TRUE, 0).stack]

\* DefUnitFn that reports an unknown body unit the way eval's loop does
DefUnitFnUnknownWord(st, t) ==
    IF IsKnownWord(st.word_ids, t)
    THEN LET token == GetCustomToken(st.word_ids, t)
         IN  IF token = NoToken THEN Return(st, "InvalidWord")
             ELSE [st EXCEPT !.tokens = Append(st.tokens, token)]
    ELSE LET token == Tokenize(t)
         IN  IF token = NoToken THEN Return(st, "UnknownWord")
             ELSE IF token.tag = "SemiColon"
                  THEN FinishDefinition(st, Append(st.tokens, token))
             ELSE IF token.tag = "Colon" THEN Return(st, "InvalidWord")
             ELSE [st EXCEPT !.tokens = Append(st.tokens, token)]

\* one iteration of create_definition's loop on the unit t
DefUnitFn(st, t) ==
    IF IsKnownWord(st.word_ids, t)
    THEN LET token == GetCustomToken(st.word_ids, t)
         IN  IF token = NoToken THEN Return(st, "InvalidWord")
             ELSE [st EXCEPT !.tokens = Append(st.tokens, token)]
    ELSE LET token == Tokenize(t)
         IN  IF token = NoToken THEN Return(st, "InvalidWord")
             ELSE IF token.tag = "SemiColon"
                  THEN FinishDefinition(st, Append(st.tokens, token))
             ELSE IF token.tag = "Colon" THEN Return(st, "InvalidWord")
             ELSE [st EXCEPT !.tokens = Append(st.tokens, token)]

\* iter.next() yields None
EvalEndFn(st) ==
    CASE st.pc = "normal"  -> Return(st, "Ok")
      [] st.pc = "defname" -> Return(st, "InvalidWord")
      [] st.pc = "capture" -> FinishDefinition(st, st.tokens)

\* the step the unit t takes from the state st
StepFn(st, t, chk) ==
    CASE st.pc = "normal"  -> EvalUnitFn(st, t, chk)
      [] st.pc = "defname" -> DefNameFn(st, t)
      [] st.pc = "capture" -> DefUnitFn(st, t)

(***************************************************************************)
(* The bounds, as guards of the steps.                                     *)
(***************************************************************************)
InRange(v) ==
    \/ (v >= -MaxAbs /\ v <= MaxAbs)
    \/ v \in {MINI32, MAXI32}

Within(st) ==
    \/ st.pc = "aborted"
    \/ /\ Len(st.stack) <= MaxStack
       /\ \A i \in DOMAIN st.stack : InRange(st.stack[i])
       /\ Cardinality(DOMAIN st.word_ids) <= MaxWords
       /\ Len(st.tokens) <= MaxBody

\* a process that aborted leaves no instance to observe
Commit(st) ==
    /\ Within(st)
    /\ pc' = st.pc
    /\ result' = st.result
    /\ IF st.pc = "aborted"
       THEN UNCHANGED <<stack, word_ids, custom_words, word, tokens, shadow>>
       ELSE /\ stack' = st.stack
            /\ word_ids' = st.word_ids
            /\ custom_words' = st.custom_words
            /\ word' = st.word
            /\ tokens' = st.tokens
            /\ shadow' = st.shadow
    /\ UNCHANGED <<overflow_checks, alphabet>>

(***************************************************************************)
(* Actions.                                                                *)
(***************************************************************************)
EvalCall ==
    /\ pc = "idle"
    /\ Commit(EvalCallFn(Here))

EvalUnit(u) ==
    /\ pc = "normal"
    /\ Commit(EvalUnitFn(Here, ToAsciiLowercase(u), overflow_checks))

DefName(u) ==
    /\ pc = "defname"
    /\ Commit(DefNameFn(Here, ToAsciiLowercase(u)))

DefUnit(u) ==
    /\ pc = "capture"
    /\ Commit(DefUnitFn(Here, ToAsciiLowercase(u)))

EvalEnd ==
    /\ pc \in {"normal", "defname", "capture"}
    /\ Commit(EvalEndFn(Here))

Next ==
    \/ EvalCall
    \/ \E u \in alphabet : EvalUnit(u)
    \/ \E u \in alphabet : DefName(u)
    \/ \E u \in alphabet : DefUnit(u)
    \/ EvalEnd

Spec == Init /\ [][Next]_vars

\* Forth::new(), fed programs that are not in lower case
InitCase ==
    /\ stack = <<>>
    /\ word_ids = EmptyMap
    /\ custom_words = EmptyMap
    /\ pc = "idle"
    /\ word = <<>>
    /\ tokens = <<>>
    /\ result = "none"
    /\ alphabet \in CaseAlphabets
    /\ overflow_checks = TRUE
    /\ shadow = {}

SpecCase == InitCase /\ [][Next]_vars

(***************************************************************************)
(* Vocabulary of the properties.                                           *)
(***************************************************************************)
Running == {"normal", "defname", "capture"}

\* the units of the programs, as eval sees them
Units == {ToAsciiLowercase(u) : u \in alphabet}

\* the ids the body stored under id refers to
Refs(cw, id) ==
    IF id \in DOMAIN cw
    THEN {cw[id][i].arg : i \in {j \in DOMAIN cw[id] : cw[id][j].tag = "Custom"}}
    ELSE {}

RECURSIVE ReachFrom(_, _)
\* the ids whose bodies executing one of the ids in seen can run
ReachFrom(cw, seen) ==
    LET more == seen \cup UNION {Refs(cw, id) : id \in seen}
    IN  IF more = seen THEN seen ELSE ReachFrom(cw, more)

Reach(cw, id) == ReachFrom(cw, {id})

IsPrefix(s, t) == Len(s) <= Len(t) /\ SubSeq(t, 1, Len(s)) = s

\* the programs spell no name of the form rename_word produces
NoShadowSpelled == \A t \in Units : Head(t) # "_"

(***************************************************************************)
(* C1.  A word B keeps executing what it executed when it was defined:     *)
(* a definition of another name changes neither the id B is bound to nor   *)
(* any body that executing B runs.  (Stated for programs that spell no     *)
(* shadow name, so that B is never itself a shadow name.)                  *)
(***************************************************************************)
C1_OldBindingKept ==
    [][NoShadowSpelled =>
        \A n \in (DOMAIN word_ids) \ shadow :
            (pc = "capture" /\ n = word) \/
            /\ n \in DOMAIN word_ids'
            /\ word_ids'[n] = word_ids[n]
            /\ \A j \in Reach(custom_words, word_ids[n]) :
                   j \in DOMAIN custom_words' /\ custom_words'[j] = custom_words[j]
      ]_vars

(***************************************************************************)
(* C2.  Every successful define stores its body under an id that had no    *)
(* body, and no stored body ever changes.                                  *)
(***************************************************************************)
C2_IdsNeverReused ==
    [][/\ \A id \in DOMAIN custom_words :
              id \in DOMAIN custom_words' /\ custom_words'[id] = custom_words[id]
       /\ (word_ids' # word_ids) =>
              Cardinality(DOMAIN custom_words') = Cardinality(DOMAIN custom_words) + 1
      ]_vars

(***************************************************************************)
(* C3.  No unit of an input names a binding made by rename_word: such a    *)
(* unit would execute the shadow binding in normal state, refer to it in   *)
(* a body, or rebind it as a definition's name.                            *)
(***************************************************************************)
C3_ShadowUnreachable ==
    \A t \in Units : ~(IsKnownWord(word_ids, t) /\ t \in shadow)

\* a program defined a word, redefined it, and the old binding got its shadow name
C3_Witness ==
    /\ shadow # {}
    /\ \E n \in shadow : IsKnownWord(word_ids, n)

(***************************************************************************)
(* C4.  Original statement: the step on which an eval call fails changes   *)
(* neither the stack nor the dictionary, so that what is kept is exactly   *)
(* what the units before the failing one left.                             *)
(***************************************************************************)
C4_ExactlyPriorEffects ==
    [][(pc \in Running /\ result' \in Error) =>
          /\ stack' = stack
          /\ word_ids' = word_ids
          /\ custom_words' = custom_words
      ]_vars

\* the built-in operation a unit stands for in normal state, if any
BuiltinOf(st, t) ==
    IF IsKnownWord(st.word_ids, t) THEN NoToken
    ELSE LET token == Tokenize(t)
         IN  IF token.tag \in {"Colon", "None"} THEN NoToken ELSE token

(***************************************************************************)
(* C4, amended.  From every state of a running call and for every unit:    *)
(* if the step on that unit (or on the end of the input) fails, the call   *)
(* is over with that error as its result, the dictionary is as the units   *)
(* before left it, and the stack is as they left it but for what the       *)
(* failing unit did before its error: a failing built-in leaves the stack  *)
(* it found without the operands it had popped, a failing definition       *)
(* leaves it as it found it.  The next call starts on the retained state.  *)
(***************************************************************************)
C4_FirstErrorAborts ==
    /\ pc \in Running =>
         /\ \A t \in Units :
              LET n == StepFn(Here, t, overflow_checks)
              IN  n.result \in Error =>
                    /\ n.pc = "idle"
                    /\ n.word_ids = word_ids
                    /\ n.custom_words = custom_words
                    /\ (pc # "normal" \/ ~IsKnownWord(word_ids, t)) =>
                           IsPrefix(n.stack, stack)
                    /\ pc # "normal" => n.stack = stack
                    /\ (pc = "normal" /\ BuiltinOf(Here, t) # NoToken) =>
                           /\ n.result = ExecuteToken(BuiltinOf(Here, t), custom_words,
                                                      stack, overflow_checks, 0).res
                           /\ n.result = "StackUnderflow" => n.stack = <<>>
                           /\ n.result = "DivisionByZero" =>
                                  n.stack = SubSeq(stack, 1, Len(stack) - 2)
         /\ LET e == EvalEndFn(Here)
            IN  e.result \in Error =>
                  /\ e.pc = "idle"
                  /\ e.stack = stack
                  /\ e.word_ids = word_ids
                  /\ e.custom_words = custom_words
    /\ result \in Error =>
         /\ pc = "idle"
         /\ LET c == EvalCallFn(Here)
            IN  /\ c.pc = "normal"
                /\ c.stack = stack
                /\ c.word_ids = word_ids
                /\ c.custom_words = custom_words

\* a call failed with StackUnderflow and the failing built-in took the
\* operand it had popped with it
C4_Witness ==
    /\ pc = "idle"
    /\ result = "StackUnderflow"
    /\ stack = <<>>

(***************************************************************************)
(* C5.  Wherever a call stands in normal state, ending the input there     *)
(* returns Ok and a new call resumes in exactly the same state: so         *)
(* eval(a) returning Ok followed by eval(b) runs the units of b from the   *)
(* state from which eval of a and b joined runs them.  A call that stands  *)
(* inside a definition does not return Ok.                                 *)
(***************************************************************************)
C5_CallsCompose ==
    /\ pc = "normal" =>
         /\ EvalEndFn(Here).result = "Ok"
         /\ EvalCallFn(EvalEndFn(Here)) = Here
    /\ pc \in {"defname", "capture"} => EvalEndFn(Here).result # "Ok"
    /\ (pc = "idle" /\ result = "Ok") => EvalEndFn(EvalCallFn(Here)) = Here

\* a call returned Ok and left a stack and a dictionary for the next one
C5_Witness ==
    /\ pc = "idle"
    /\ result = "Ok"
    /\ stack # <<>>
    /\ DOMAIN word_ids # {}

(***************************************************************************)
(* C6.  No eval call ends the process.                                     *)
(***************************************************************************)
C6_NeverAborts == pc # "aborted"

(***************************************************************************)
(* C7.  A definition that is malformed fails with InvalidWord: the input   *)
(* ends right after the colon or before the semicolon, a colon comes       *)
(* inside the definition, a body unit is no known word, no built-in and    *)
(* no integer, or the name parses as an integer (such a definition never   *)
(* succeeds).  No step of a definition fails with another error.           *)
(***************************************************************************)
C7_MalformedInvalidWord ==
    /\ pc = "defname" => EvalEndFn(Here).result = "InvalidWord"
    /\ pc = "capture" =>
         /\ EvalEndFn(Here).result = "InvalidWord"
         /\ DefUnitFn(Here, <<":">>).result = "InvalidWord"
         /\ \A t \in Units :
              LET n == DefUnitFn(Here, t)
              IN  /\ (~IsKnownWord(word_ids, t) /\ Tokenize(t) = NoToken) =>
                         n.result = "InvalidWord"
                  /\ n.result # "none" => n.result = "InvalidWord"
                  /\ ParseI32(word).ok => n.pc # "normal"
                  /\ (ParseI32(word).ok /\ t = <<";">> /\ ~IsKnownWord(word_ids, t)) =>
                         n.result = "InvalidWord"

\* a definition failed on an instance that already holds definitions
C7_Witness ==
    /\ pc = "idle"
    /\ result = "InvalidWord"
    /\ DOMAIN word_ids # {}

(***************************************************************************)
(* C8.  No name bound in word_ids parses as an i32, and in normal state a  *)
(* unit that parses as an i32 pushes its value and the call goes on.       *)
(***************************************************************************)
C8_NoNumericName ==
    /\ \A n \in DOMAIN word_ids : ~ParseI32(n).ok
    /\ pc = "normal" =>
         \A t \in Units :
            ParseI32(t).ok =>
               LET n == EvalUnitFn(Here, t, overflow_checks)
               IN  /\ n.stack = Append(stack, ParseI32(t).v)
                   /\ n.pc = "normal"
                   /\ n.word_ids = word_ids
                   /\ n.custom_words = custom_words

\* a definition named by an integer literal reaches its semicolon and is refused
C8_Witness ==
    /\ pc = "capture"
    /\ ParseI32(word).ok
    /\ DOMAIN word_ids # {}
    /\ DefUnitFn(Here, <<";">>).result = "InvalidWord"

(***************************************************************************)
(* C9.  Original statement: in normal state a unit that is no bound word,  *)
(* no built-in and no integer fails with UnknownWord, and so does the      *)
(* unit `;`; the failing unit leaves the stack and the dictionary alone.   *)
(***************************************************************************)
UnknownWordUnchanged(n) ==
    /\ n.result = "UnknownWord"
    /\ n.pc = "idle"
    /\ n.stack = stack
    /\ n.word_ids = word_ids
    /\ n.custom_words = custom_words

C9_UnknownWord ==
    pc = "normal" =>
       /\ \A t \in Units :
             (~IsKnownWord(word_ids, t) /\ Tokenize(t) = NoToken) =>
                 UnknownWordUnchanged(EvalUnitFn(Here, t, overflow_checks))
       /\ UnknownWordUnchanged(EvalUnitFn(Here, <<";">>, overflow_checks))

(***************************************************************************)
(* C9, amended.  The same, the unit `;` failing with UnknownWord unless    *)
(* `;` is itself currently bound as a custom word.                         *)
(***************************************************************************)
C9_UnknownWordUnlessBound ==
    pc = "normal" =>
       /\ \A t \in Units :
             (~IsKnownWord(word_ids, t) /\ Tokenize(t) = NoToken) =>
                 UnknownWordUnchanged(EvalUnitFn(Here, t, overflow_checks))
       /\ ~IsKnownWord(word_ids, <<";">>) =>
             UnknownWordUnchanged(EvalUnitFn(Here, <<";">>, overflow_checks))

\* a call failed with UnknownWord and left what the units before it had built
C9_Witness ==
    /\ pc = "idle"
    /\ result = "UnknownWord"
    /\ stack # <<>>

(***************************************************************************)
(* C10.  On a stack of at least two values, top a over b, add, sub, mul    *)
(* and div (a # 0) succeed and replace the two values by b+a, b-a, b*a     *)
(* and b/a truncated toward zero, the values below staying.  The exact     *)
(* result is compared only where it is an i32: where it is not, no value   *)
(* pushed can equal it.                                                    *)
(***************************************************************************)
ReplacesTopTwo(r, fits, exact) ==
    /\ r.res = "Ok"
    /\ fits
    /\ Len(r.stack) = Len(stack) - 1
    /\ Front(r.stack) = SubSeq(stack, 1, Len(stack) - 2)
    /\ Last(r.stack) = exact

C10_Arithmetic ==
    (pc = "normal" /\ Len(stack) >= 2) =>
       LET a == stack[Len(stack)]
           b == stack[Len(stack) - 1]
           run(tag) == ExecuteToken(Tok(tag), custom_words, stack, overflow_checks, 0)
       IN  /\ ReplacesTopTwo(run("Add"), AddFits(b, a), b + a)
           /\ ReplacesTopTwo(run("Sub"), SubFits(b, a), b - a)
           /\ ReplacesTopTwo(run("Mul"), MulFits(b, a), b * a)
           /\ a # 0 => ReplacesTopTwo(run("Div"), DivFits(b, a), TruncDiv(b, a))

(***************************************************************************)
(* C11.  In normal state, on a stack that holds enough operands, the unit  *)
(* of a stack built-in succeeds: dup makes the stack one longer with its   *)
(* top two values equal to the old top, drop removes the top value alone,  *)
(* swap exchanges the top two values, over pushes a copy of the second     *)
(* value from the top; every value below those stays where it was.         *)
(***************************************************************************)
C11_StackOps ==
    pc = "normal" =>
      \A t \in Units :
        LET op == BuiltinOf(Here, t).tag
            n == EvalUnitFn(Here, t, overflow_checks)
            k == Len(stack)
            ok == n.pc = "normal" /\ n.result = "none"
        IN  /\ (op = "Dup" /\ k >= 1) =>
                  /\ ok
                  /\ Len(n.stack) = k + 1
                  /\ n.stack[k + 1] = stack[k]
                  /\ SubSeq(n.stack, 1, k) = stack
            /\ (op = "Drop" /\ k >= 1) =>
                  /\ ok
                  /\ n.stack = SubSeq(stack, 1, k - 1)
            /\ (op = "Swap" /\ k >= 2) =>
                  /\ ok
                  /\ Len(n.stack) = k
                  /\ n.stack[k] = stack[k - 1]
                  /\ n.stack[k - 1] = stack[k]
                  /\ SubSeq(n.stack, 1, k - 2) = SubSeq(stack, 1, k - 2)
            /\ (op = "Over" /\ k >= 2) =>
                  /\ ok
                  /\ Len(n.stack) = k + 1
                  /\ n.stack[k + 1] = stack[k - 1]
                  /\ SubSeq(n.stack, 1, k) = stack

\* over has copied the second value from the top, which differs from the top
C11_Witness ==
    /\ pc = "normal"
    /\ <<"o", "v", "e", "r">> \in Units
    /\ Len(stack) = 3
    /\ stack[3] = stack[1]
    /\ stack[2] # stack[1]

(***************************************************************************)
(* C12.  In normal state, on a stack of at least two values whose top is   *)
(* zero, the division unit ends the call with DivisionByZero after both    *)
(* operands were popped: nothing is pushed, the stack is the old one       *)
(* without its top two values, and the dictionary is untouched.            *)
(***************************************************************************)
C12_DivisionByZero ==
    (pc = "normal" /\ Len(stack) >= 2 /\ Last(stack) = 0) =>
      \A t \in Units :
        BuiltinOf(Here, t).tag = "Div" =>
          LET n == EvalUnitFn(Here, t, overflow_checks)
          IN  /\ n.pc = "idle"
              /\ n.result = "DivisionByZero"
              /\ n.stack = SubSeq(stack, 1, Len(stack) - 2)
              /\ n.word_ids = word_ids
              /\ n.custom_words = custom_words

\* a call failed with DivisionByZero and a value below the operands is kept
C12_Witness ==
    /\ pc = "idle"
    /\ result = "DivisionByZero"
    /\ Len(stack) = 1

\* the number of values a built-in operation pops
Pops(tag) == IF tag \in {"Dup", "Drop"} THEN 1 ELSE 2

(***************************************************************************)
(* C13.  In normal state the unit of a built-in operation fails with       *)
(* StackUnderflow exactly when the stack holds fewer values than the       *)
(* operation pops (one for dup and drop, two for the others); the call is  *)
(* then over and the values popped before the failure are gone, which      *)
(* leaves the stack empty.                                                 *)
(***************************************************************************)
C13_StackUnderflow ==
    pc = "normal" =>
      \A t \in Units :
        LET op == BuiltinOf(Here, t).tag
            n == EvalUnitFn(Here, t, overflow_checks)
        IN  op \in {"Add", "Sub", "Mul", "Div", "Dup", "Drop", "Swap", "Over"} =>
              /\ (n.result = "StackUnderflow") <=> (Len(stack) < Pops(op))
              /\ n.result = "StackUnderflow" =>
                    /\ n.pc = "idle"
                    /\ n.stack = <<>>

\* a two-operand built-in is about to run on a stack of one value, which it
\* pops before it fails
C13_Witness ==
    /\ pc = "normal"
    /\ Len(stack) = 1
    /\ \E t \in Units :
         /\ BuiltinOf(Here, t).tag = "Swap"
         /\ EvalUnitFn(Here, t, overflow_checks).result = "StackUnderflow"
         /\ EvalUnitFn(Here, t, overflow_checks).stack = <<>>

\* the step a running call takes on the unit u as it is spelled in the input
OnInput(u) == StepFn(Here, ToAsciiLowercase(u), overflow_checks)

\* spellings of units, each with its lower-case form written out
CaseForms ==
    {<< <<"F">>, <<"f">> >>,
     << <<"D", "U", "P">>, <<"d", "u", "p">> >>,
     << <<"O", "v", "e", "R">>, <<"o", "v", "e", "r">> >>,
     << <<"_", "F">>, <<"_", "f">> >>}

(***************************************************************************)
(* C14.  eval is case-insensitive.  From every state of a running call,    *)
(* in normal state, at the name of a definition and inside its body, the   *)
(* step on a unit and the step on its lower-case form give the same        *)
(* result, stack, dictionary and position, for built-in keywords, for      *)
(* user words and for units that are neither; and every name the           *)
(* dictionary holds is in lower case.  Unit by unit, evaluating an input   *)
(* and evaluating its lower-case form therefore agree.                     *)
(***************************************************************************)
C14_CaseInsensitive ==
    /\ pc \in Running =>
         \A p \in CaseForms : OnInput(p[1]) = OnInput(p[2])
    /\ \A k \in DOMAIN word_ids :
         \A i \in DOMAIN k : \A j \in DOMAIN UpperChars : k[i] # UpperChars[j]

\* the word spelled F in the input is bound as f, to a body holding the
\* built-in spelled DUP
C14_Witness ==
    /\ pc = "normal"
    /\ <<"F">> \in alphabet
    /\ <<"f">> \notin alphabet
    /\ IsKnownWord(word_ids, <<"f">>)
    /\ custom_words[word_ids[<<"f">>]] = <<Tok("Dup")>>

\* the built-in operations a name can stand for
BuiltinOps == {"Add", "Sub", "Mul", "Div", "Dup", "Drop", "Swap", "Over"}

IsBuiltinName(k) == Tokenize(k).tag \in BuiltinOps

(***************************************************************************)
(* C15.  Once a built-in word k is bound by a user definition, the user    *)
(* body takes precedence from then on: in normal state the unit k runs     *)
(* that body, inside a definition it is taken as a reference to it, and    *)
(* until k is defined again no step changes the binding of k or the body   *)
(* it is bound to.  A body captured before, which holds the built-in       *)
(* operation of k, is never changed.                                       *)
(***************************************************************************)
C15_UserWordOverBuiltin ==
    [][\A k \in DOMAIN word_ids :
         IsBuiltinName(k) =>
           /\ pc = "normal" =>
                 LET n == EvalUnitFn(Here, k, overflow_checks)
                     r == ExecuteCustomWord(k, word_ids, custom_words, stack,
                                            overflow_checks)
                 IN  n.stack = r.stack /\ (r.res = "Ok" <=> n.pc = "normal")
           /\ pc = "capture" =>
                 DefUnitFn(Here, k).tokens = Append(tokens, CustomTok(word_ids[k]))
           /\ \/ pc = "capture" /\ word = k /\ pc' = "normal"
              \/ /\ k \in DOMAIN word_ids'
                 /\ word_ids'[k] = word_ids[k]
                 /\ custom_words'[word_ids[k]] = custom_words[word_ids[k]]
           /\ \A id \in DOMAIN custom_words :
                (\E i \in DOMAIN custom_words[id] : custom_words[id][i] = Tokenize(k))
                   => custom_words'[id] = custom_words[id]
      ]_vars

(***************************************************************************)
(* C16.  Every id the name-to-id index holds has a stored body, and so     *)
(* has every custom-word reference in a stored body and in the body a      *)
(* definition is capturing; hence executing a known custom word in normal  *)
(* state never yields UnknownWord.                                         *)
(***************************************************************************)
C16_EveryRefHasBody ==
    /\ \A k \in DOMAIN word_ids : GetById(custom_words, word_ids[k]).some
    /\ \A id \in DOMAIN custom_words :
         \A j \in Refs(custom_words, id) : GetById(custom_words, j).some
    /\ \A i \in DOMAIN tokens :
         tokens[i].tag = "Custom" => GetById(custom_words, tokens[i].arg).some
    /\ pc = "normal" =>
         \A k \in DOMAIN word_ids :
           /\ ExecuteCustomWord(k, word_ids, custom_words, stack,
                                overflow_checks).res # "UnknownWord"
           /\ EvalUnitFn(Here, k, overflow_checks).result # "UnknownWord"

\* a stored body refers to another word and a redefinition has moved a
\* binding to its shadow name
C16_Witness ==
    /\ pc = "normal"
    /\ \E id \in DOMAIN custom_words : Refs(custom_words, id) # {}
    /\ shadow \cap DOMAIN word_ids # {}

(***************************************************************************)
(* C17.  No step of a definition changes the stack: taking the name and    *)
(* collecting a body unit execute nothing.  The step on the closing `;`    *)
(* of a definition that succeeds leaves the call in normal state, with     *)
(* the collected body stored under the name and not run; the units that    *)
(* follow are steps of normal state, and the body runs when a unit         *)
(* invokes the word.                                                       *)
(***************************************************************************)
C17_DefinitionDefers ==
    /\ pc = "defname" =>
         \A t \in Units : DefNameFn(Here, t).stack = stack
    /\ pc = "capture" =>
         \A t \in Units :
           LET n == DefUnitFn(Here, t)
           IN  /\ n.stack = stack
               /\ (n.result = "none" /\ n.pc # "capture") =>
                     /\ n.pc = "normal"
                     /\ IsKnownWord(n.word_ids, word)
                     /\ GetTokens(n.word_ids, n.custom_words, word).v = tokens
                     /\ EvalUnitFn(n, word, overflow_checks).stack =
                           ExecuteTokens(tokens, n.custom_words, stack,
                                         overflow_checks, 0).stack

\* a word with a body that pushes a value is defined and nothing was pushed
C17_Witness ==
    /\ pc = "normal"
    /\ stack = <<>>
    /\ \E k \in DOMAIN word_ids : custom_words[word_ids[k]] = <<IntTok(1)>>

(***************************************************************************)
(* C18.  The references between stored bodies form no cycle: a body        *)
(* stored under an id refers only to smaller ids, those assigned before    *)
(* it, and following references from a body never leads back to it, so     *)
(* that expanding a custom word comes to an end.                           *)
(***************************************************************************)
C18_BodiesAcyclic ==
    \A id \in DOMAIN custom_words :
      /\ \A j \in Refs(custom_words, id) : j < id
      /\ id \notin UNION {Reach(custom_words, j) : j \in Refs(custom_words, id)}

(***************************************************************************)
(* C19.  A definition that does not succeed changes nothing: the step on   *)
(* `:` and every step inside a definition that does not complete it        *)
(* leave the stack, the name-to-id index and the bodies as they are, and   *)
(* a step that fails does so with InvalidWord and ends the call.  So a     *)
(* definition that fails leaves stack and dictionary as they were when     *)
(* its `:` was read, and no binding was renamed to its shadow name.        *)
(***************************************************************************)
C19_FailedDefinitionNoEffect ==
    /\ pc = "normal" =>
         \A t \in Units :
           LET n == EvalUnitFn(Here, t, overflow_checks)
           IN  n.pc = "defname" =>
                 /\ n.stack = stack
                 /\ n.word_ids = word_ids
                 /\ n.custom_words = custom_words
    /\ pc \in {"defname", "capture"} =>
         /\ \A t \in Units :
              LET n == StepFn(Here, t, overflow_checks)
              IN  n.pc # "normal" =>
                    /\ n.stack = stack
                    /\ n.word_ids = word_ids
                    /\ n.custom_words = custom_words
                    /\ n.shadow = shadow
                    /\ n.pc \in {"capture", "idle"}
                    /\ n.pc = "idle" <=> n.result = "InvalidWord"
         /\ LET e == EvalEndFn(Here)
            IN  /\ e.pc = "idle"
                /\ e.result = "InvalidWord"
                /\ e.stack = stack
                /\ e.word_ids = word_ids
                /\ e.custom_words = custom_words
                /\ e.shadow = shadow

\* the redefinition of a bound word has collected a body and is about to
\* fail at the end of the input
C19_Witness ==
    /\ pc = "capture"
    /\ IsKnownWord(word_ids, word)
    /\ tokens # <<>>
    /\ EvalEndFn(Here).result = "InvalidWord"
    /\ stack # <<>>

====
